---- MODULE Spec2Model ----
(***************************************************************************)
(* Model of fitter_old.py (PhononSED): the per-mode Lorentzian fitting     *)
(* driver (window selection, initial guess, bounds, storing of the result) *)
(* and the staged optimizer fit_function.                                  *)
(*                                                                         *)
(* Units.  Frequencies (freqs, peak_freqs, sw, w0, the center parameter)   *)
(* are integers in 1/cm; the frequency step is even so that                *)
(* freq_step*0.5 is an integer.  The width parameter Gamma is an integer   *)
(* in 1e-6 1/cm, so that the bound .000001 is 1.  Arrays are functions on  *)
(* 0..n-1 (Python indexing); slices are sequences.                         *)
(***************************************************************************)
EXTENDS Integers, Sequences, FiniteSets, TLC

(* ------------------------- program constants --------------------------- *)
sw == 10
MinFreqs == 6
GammaLo == 1
GammaGuess == 10000000
GammaHi == 1000000000

(* ------------------------------ bounds --------------------------------- *)
MaxFreqs == 7
MaxModes == 2
MaxAmp == 2

FreqSteps == {2, 4, 20}

VARIABLES
    freqs, num_modes,
    pc, exc_line, m,
    peak_freq, Y,
    max_height, idx_max, freq_max,
    idx_gulp_peak, warnings,
    freqs_2_fit, Y_2_fit,
    w0, guess, bounds, params,
    allparams, lifetimes, stored,
    fpc, flags, f_guess, f_params, calls

drv_vars == <<freqs, num_modes, pc, exc_line, m, peak_freq, Y, max_height,
              idx_max, freq_max, idx_gulp_peak, warnings, freqs_2_fit,
              Y_2_fit, w0, guess, bounds, params, allparams, lifetimes,
              stored>>
fit_vars == <<fpc, flags, f_guess, f_params, calls>>
vars == <<drv_vars, fit_vars>>

(* ------------------------------ helpers -------------------------------- *)
Abs(x) == IF x < 0 THEN -x ELSE x
Min2(a, b) == IF a < b THEN a ELSE b
Max2(a, b) == IF a > b THEN a ELSE b

\* len(a) of an array
PyLen(a) == Cardinality(DOMAIN a)

\* Python's a[lo:hi]: negative bounds count from the end, both are clipped
\* to the array, an empty range gives an empty slice; never raises.
PyNorm(i, n) == IF i < 0 THEN Max2(i + n, 0) ELSE Min2(i, n)
PySlice(a, lo, hi) ==
    LET n == PyLen(a)
        s == PyNorm(lo, n)
        e == PyNorm(hi, n)
    IN  [i \in 1..Max2(e - s, 0) |-> a[s + i - 1]]

\* Python's a[i]: IndexError unless -n <= i < n
PyIndexOk(a, i) == -PyLen(a) <= i /\ i < PyLen(a)
PyAt(a, i) == a[IF i < 0 THEN i + PyLen(a) ELSE i]

\* round(p/q) for q > 0: round half to even
RoundHalfEven(p, q) ==
    LET fl == p \div q
        r  == p % q
    IN  IF 2 * r < q THEN fl
        ELSE IF 2 * r > q THEN fl + 1
        ELSE IF fl % 2 = 0 THEN fl ELSE fl + 1

(* --------------------------- script globals ---------------------------- *)
num_freqs == PyLen(freqs)
freq_step == freqs[5] - freqs[4]
iw == RoundHalfEven(sw, freq_step)

(* ------------------------- inputs of one run --------------------------- *)
\* the frequency column: uniform step, first point at zero
FreqColumns ==
    {[i \in 0..(n - 1) |-> i * s] : n \in MinFreqs..MaxFreqs, s \in FreqSteps}

\* amplitude columns mode_data[:,m]: one peak over a flat baseline, at the
\* first, the middle or the last frequency point
Columns(n) ==
    {[i \in 0..(n - 1) |-> IF i = p THEN 2 ELSE 1] : p \in {0, n \div 2, n - 1}}

\* prior peak estimates peak_freqs[m]: every step from below zero to beyond
\* the last frequency point
Priors == {k * freq_step : k \in (-1)..(MaxFreqs + 1)}

(* ------------------- the loop body, lines 118-152 ---------------------- *)
\* max(mode_data[:,m])
MaxHeight(Yc) ==
    CHOOSE v \in {Yc[i] : i \in DOMAIN Yc} : \A i \in DOMAIN Yc : Yc[i] <= v

\* list(mode_data[:,m]).index(max_height): the first index of the maximum
IdxMax(Yc) ==
    LET mh == MaxHeight(Yc) IN
    CHOOSE i \in DOMAIN Yc :
        /\ Yc[i] = mh
        /\ \A j \in DOMAIN Yc : j < i => Yc[j] # mh

\* freq_max = idx_max*freq_step + freq_step*0.5
FreqMax(i) == i * freq_step + freq_step \div 2

\* int(round(peak_freqs[m]/freq_step))
IdxRound(pk) == RoundHalfEven(pk, freq_step)

\* mutant of Mismatch: the comparison made non-strict
MismatchGe(fm, pk) == Abs(fm - pk) >= sw

\* abs(freq_max - peak_freqs[m]) > sw
Mismatch(fm, pk) == Abs(fm - pk) > sw

\* idx_gulp_peak > len(mode_data[:,1])-1
BeyondData(idx) == idx > num_freqs - 1

\* mode_data[:,1] exists only when there is a second amplitude column
ModeDataCol1Ok == 1 < num_modes

ClampHigh(idx) == IF BeyondData(idx) THEN num_freqs - iw - 1 ELSE idx

\* mutant of ClampLow: the near-zero center set to iw instead of iw + 1
ClampLowOffByOne(idx) == IF (idx - iw) < 0 THEN iw ELSE idx

ClampLow(idx) == IF (idx - iw) < 0 THEN iw + 1 ELSE idx

MismatchWarning(Yc, pk) ==
    IF Mismatch(FreqMax(IdxMax(Yc)), pk) THEN {"WARNING"} ELSE {}

SevereWarning(pk) ==
    IF BeyondData(IdxRound(pk)) THEN {"SEVERE WARNING"} ELSE {}

\* mutant of SelectWindow: on a mismatch the window is centered on the
\* empirical maximum (what the commented-out line 126 set out to do)
SelectWindowRecenter(Yc, pk) ==
    [warnings |-> MismatchWarning(Yc, pk) \cup SevereWarning(pk),
     idx      |-> IF Mismatch(FreqMax(IdxMax(Yc)), pk)
                  THEN ClampLow(ClampHigh(IdxMax(Yc)))
                  ELSE ClampLow(ClampHigh(IdxRound(pk)))]

\* lines 118-133: the lines printed and the final center index
SelectWindow(Yc, pk) ==
    [warnings |-> MismatchWarning(Yc, pk) \cup SevereWarning(pk),
     idx      |-> ClampLow(ClampHigh(IdxRound(pk)))]

\* params = [max_height, w0, 10, 0]   (1-based here: A, w_0, Gamma, D)
InitialGuess(mh, w) == <<mh, w, GammaGuess, 0>>

\* if (w0 < sw): w0 = sw + 1
ShiftW0(w) == IF w < sw THEN sw + 1 ELSE w

\* bounds = [(0, max_height), (w0 - sw, w0 + sw), (.000001, 1000), (0, 0)]
Bounds(mh, w) == << <<0, mh>>, <<w - sw, w + sw>>, <<GammaLo, GammaHi>>, <<0, 0>> >>

\* (1/(params[2]*2.99*1e10))/(1e-9) ps is the rational 10^7 / (299 * Gamma),
\* Gamma counted in 1e-6 1/cm; kept as numerator and the Gamma it divides by
Lifetime(p) == [num |-> 10000000, per299 |-> p[3]]

(* ---------------------------- fit_function ----------------------------- *)
\* mutant of NextParams: the stage's result is not assigned to params
NextParamsDropped(enabled, p, x) == p

\* one stage: if (flag == True): params = resultobject.x
NextParams(enabled, p, x) == IF enabled THEN x ELSE p

\* the three stages in sequence, x1..x3 the optimizers' results
fit_function(p, de, tnc, slsqp, x1, x2, x3) ==
    NextParams(slsqp, NextParams(tnc, NextParams(de, p, x1), x2), x3)

\* results an optimizer may return inside a bound box: its two corners
BoxLow(b) == <<b[1][1], b[2][1], b[3][1], b[4][1]>>
BoxHigh(b) == <<b[1][2], b[2][2], b[3][2], b[4][2]>>
BoxSamples(b) == {BoxLow(b), BoxHigh(b)}

\* parameter vectors for fit_function called on its own
FitSamples == {<<a, sw + 1, GammaGuess, 0>> : a \in 0..MaxAmp}

FitIdle ==
    /\ fpc = "idle"
    /\ flags = [de |-> TRUE, tnc |-> TRUE, slsqp |-> TRUE]
    /\ f_guess = <<>>
    /\ f_params = <<>>
    /\ calls = <<>>

(* ------------------------------ driver --------------------------------- *)
Init ==
    /\ freqs \in FreqColumns
    /\ num_modes \in 1..MaxModes
    /\ pc = "loop"
    /\ exc_line = 0
    /\ m = -1
    /\ peak_freq = 0
    /\ Y = <<>>
    /\ max_height = 0
    /\ idx_max = 0
    /\ freq_max = 0
    /\ idx_gulp_peak = 0
    /\ warnings = {}
    /\ freqs_2_fit = <<>>
    /\ Y_2_fit = <<>>
    /\ w0 = 0
    /\ guess = <<>>
    /\ bounds = <<>>
    /\ params = <<>>
    /\ allparams = [k \in 0..(num_modes - 1) |-> <<0, 0, 0, 0>>]
    /\ lifetimes = [k \in 0..(num_modes - 1) |-> [num |-> 0, per299 |-> 1]]
    /\ stored = <<>>
    /\ FitIdle

\* lines 116-122: the next mode's data and what is measured on it
Measure(Yc, pk) ==
    /\ m' = m + 1
    /\ peak_freq' = pk
    /\ Y' = Yc
    /\ max_height' = MaxHeight(Yc)
    /\ idx_max' = IdxMax(Yc)
    /\ freq_max' = FreqMax(IdxMax(Yc))

\* an iteration that raises IndexError at line 128 (mode_data[:,1])
RaiseAtLine128 ==
    /\ pc = "loop"
    /\ m + 1 < num_modes
    /\ ~ModeDataCol1Ok
    /\ \E pk \in Priors, Yc \in Columns(num_freqs) :
        /\ Measure(Yc, pk)
        /\ idx_gulp_peak' = IdxRound(pk)
        /\ warnings' = MismatchWarning(Yc, pk)
    /\ pc' = "aborted"
    /\ exc_line' = 128
    /\ UNCHANGED <<freqs, num_modes, freqs_2_fit, Y_2_fit, w0, guess, bounds,
                   params, allparams, lifetimes, stored, fit_vars>>

\* an iteration that raises IndexError at line 139 (freqs[idx_gulp_peak])
RaiseAtLine139 ==
    /\ pc = "loop"
    /\ m + 1 < num_modes
    /\ ModeDataCol1Ok
    /\ \E pk \in Priors, Yc \in Columns(num_freqs) :
        LET sel == SelectWindow(Yc, pk) IN
        /\ ~PyIndexOk(freqs, sel.idx)
        /\ Measure(Yc, pk)
        /\ idx_gulp_peak' = sel.idx
        /\ warnings' = sel.warnings
        /\ freqs_2_fit' = PySlice(freqs, sel.idx - iw, sel.idx + iw)
        /\ Y_2_fit' = PySlice(Yc, sel.idx - iw, sel.idx + iw)
    /\ pc' = "aborted"
    /\ exc_line' = 139
    /\ UNCHANGED <<freqs, num_modes, w0, guess, bounds, params, allparams,
                   lifetimes, stored, fit_vars>>

\* a whole iteration, lines 116-152
FitMode ==
    /\ pc = "loop"
    /\ m + 1 < num_modes
    /\ ModeDataCol1Ok
    /\ \E pk \in Priors, Yc \in Columns(num_freqs) :
        LET sel == SelectWindow(Yc, pk)
            w   == PyAt(freqs, sel.idx)
            g   == InitialGuess(MaxHeight(Yc), w)
            b   == Bounds(MaxHeight(Yc), ShiftW0(w))
        IN
        /\ PyIndexOk(freqs, sel.idx)
        /\ Measure(Yc, pk)
        /\ idx_gulp_peak' = sel.idx
        /\ warnings' = sel.warnings
        /\ freqs_2_fit' = PySlice(freqs, sel.idx - iw, sel.idx + iw)
        /\ Y_2_fit' = PySlice(Yc, sel.idx - iw, sel.idx + iw)
        /\ w0' = ShiftW0(w)
        /\ guess' = g
        /\ bounds' = b
        /\ \E x3 \in BoxSamples(b) :
            LET fitted == fit_function(g, TRUE, TRUE, TRUE, BoxHigh(b), BoxLow(b), x3) IN
            /\ params' = fitted
            /\ allparams' = [allparams EXCEPT ![m + 1] = fitted]
            /\ lifetimes' = [lifetimes EXCEPT ![m + 1] = Lifetime(fitted)]
        /\ stored' = Append(stored, m + 1)
    /\ UNCHANGED <<freqs, num_modes, pc, exc_line, fit_vars>>

\* range(0, num_modes) is exhausted
LoopExit ==
    /\ pc = "loop"
    /\ m + 1 = num_modes
    /\ pc' = "done"
    /\ UNCHANGED <<freqs, num_modes, exc_line, m, peak_freq, Y, max_height,
                   idx_max, freq_max, idx_gulp_peak, warnings, freqs_2_fit,
                   Y_2_fit, w0, guess, bounds, params, allparams, lifetimes,
                   stored, fit_vars>>

Next == RaiseAtLine128 \/ RaiseAtLine139 \/ FitMode \/ LoopExit

Spec == Init /\ [][Next]_vars

(* ------------------- fit_function called on its own -------------------- *)
\* the driver's variables while fit_function alone is exercised
DriverIdle ==
    /\ freqs = [i \in 0..(MinFreqs - 1) |-> 2 * i]
    /\ num_modes = 1
    /\ pc = "idle"
    /\ exc_line = 0
    /\ m = -1
    /\ peak_freq = 0
    /\ Y = <<>>
    /\ max_height = 0
    /\ idx_max = 0
    /\ freq_max = 0
    /\ idx_gulp_peak = 0
    /\ warnings = {}
    /\ freqs_2_fit = <<>>
    /\ Y_2_fit = <<>>
    /\ w0 = 0
    /\ guess = <<>>
    /\ bounds = <<>>
    /\ params = <<>>
    /\ allparams = <<>>
    /\ lifetimes = <<>>
    /\ stored = <<>>

\* a call fit_function(dataX, dataY, fit_fn, params, bounds, de, TNC, SLSQP)
FitInit ==
    /\ DriverIdle
    /\ fpc = "differential_evolution"
    /\ flags \in [de : BOOLEAN, tnc : BOOLEAN, slsqp : BOOLEAN]
    /\ f_guess \in FitSamples
    /\ f_params = f_guess
    /\ calls = <<>>

\* the optimizer calls made so far: method, starting point, result
Call(method, x0, x) == [method |-> method, x0 |-> x0, x |-> x]

\* lines 90-93; differential_evolution takes no starting point
StageDE ==
    /\ fpc = "differential_evolution"
    /\ \E x \in FitSamples :
        /\ f_params' = NextParams(flags.de, f_params, x)
        /\ calls' = IF flags.de
                    THEN Append(calls, Call("differential_evolution", <<>>, x))
                    ELSE calls
    /\ fpc' = "TNC"
    /\ UNCHANGED <<drv_vars, flags, f_guess>>

\* lines 95-98
StageTNC ==
    /\ fpc = "TNC"
    /\ \E x \in FitSamples :
        /\ f_params' = NextParams(flags.tnc, f_params, x)
        /\ calls' = IF flags.tnc
                    THEN Append(calls, Call("TNC", f_params, x))
                    ELSE calls
    /\ fpc' = "SLSQP"
    /\ UNCHANGED <<drv_vars, flags, f_guess>>

\* lines 100-105; f_params is then the value returned
StageSLSQP ==
    /\ fpc = "SLSQP"
    /\ \E x \in FitSamples :
        /\ f_params' = NextParams(flags.slsqp, f_params, x)
        /\ calls' = IF flags.slsqp
                    THEN Append(calls, Call("SLSQP", f_params, x))
                    ELSE calls
    /\ fpc' = "returned"
    /\ UNCHANGED <<drv_vars, flags, f_guess>>

FitNext == StageDE \/ StageTNC \/ StageSLSQP

SpecFit == FitInit /\ [][FitNext]_vars

(* ============================== claims ================================= *)
\* the slice bounds of lines 135 and 137
WinLo == idx_gulp_peak - iw
WinHi == idx_gulp_peak + iw

\* some iteration ran and reached the slices of lines 135-137
WindowSelected == m >= 0 /\ exc_line # 128

\* some iteration ran to its end, so fit_function was called (line 149)
FitCalled == m >= 0 /\ exc_line = 0

\* the index of the prior estimate as line 122 computes it
PriorIdx == IdxRound(peak_freq)

\* C1: after both clamping steps the fit window of every mode stays inside
\* the spectrum, 0 <= center - iw and center + iw <= N, and so holds exactly
\* 2*iw data points.
C1_WindowInsideSpectrum ==
    WindowSelected =>
        /\ 0 <= WinLo
        /\ WinHi <= num_freqs
        /\ Len(freqs_2_fit) = 2 * iw
        /\ Len(Y_2_fit) = 2 * iw

\* the prior's index lies strictly between iw and N - iw
MidSpectrum == iw < PriorIdx /\ PriorIdx < num_freqs - iw

\* C2 as stated: for a mid-spectrum prior the window is exactly
\* [index - iw, index + iw) and no warning at all is emitted, whatever the
\* amplitude data.
C2_MidSpectrumNoWarning ==
    (WindowSelected /\ MidSpectrum) =>
        /\ WinLo = PriorIdx - iw
        /\ WinHi = PriorIdx + iw
        /\ warnings = {}

\* C2 amended: for a mid-spectrum prior the window is exactly
\* [index - iw, index + iw) and the severe warning is not emitted; the
\* mismatch warning is emitted exactly when the empirical maximum lies more
\* than sw from the prior, which depends on the amplitude data.
C2_MidSpectrumWindow ==
    (WindowSelected /\ MidSpectrum) =>
        /\ WinLo = PriorIdx - iw
        /\ WinHi = PriorIdx + iw
        /\ freqs_2_fit = [i \in 1..(2 * iw) |-> freqs[PriorIdx - iw + i - 1]]
        /\ "SEVERE WARNING" \notin warnings
        /\ ("WARNING" \in warnings) <=> (Abs(freq_max - peak_freq) > sw)

C2_Witness ==
    /\ WindowSelected
    /\ MidSpectrum
    /\ iw > 0
    /\ warnings = {"WARNING"}
    /\ WinLo = PriorIdx - iw

\* C3: whenever the prior's index is >= N the center is clamped to
\* N - iw - 1, the window lies within [0, N) and the severe warning is
\* emitted; the severe warning is emitted in no other case.
C3_OutOfRangePrior ==
    WindowSelected =>
        /\ (PriorIdx >= num_freqs) =>
              /\ idx_gulp_peak = num_freqs - iw - 1
              /\ 0 <= WinLo
              /\ WinHi <= num_freqs
              /\ "SEVERE WARNING" \in warnings
        /\ ("SEVERE WARNING" \in warnings) => (PriorIdx >= num_freqs)

\* C4: whenever the prior's index is below iw (negative indices included)
\* the center is clamped to iw + 1, the window is [1, 2*iw + 1) with a start
\* >= 0, and the adjustment itself prints nothing: the lines printed are the
\* ones the mismatch and the out-of-range tests call for.
C4_AcousticWindow ==
    (WindowSelected /\ PriorIdx < iw) =>
        /\ idx_gulp_peak = iw + 1
        /\ WinLo = 1
        /\ WinHi = 2 * iw + 1
        /\ WinLo >= 0
        /\ warnings =
              (IF Abs(freq_max - peak_freq) > sw THEN {"WARNING"} ELSE {}) \cup
              (IF PriorIdx >= num_freqs THEN {"SEVERE WARNING"} ELSE {})

C4_Witness ==
    /\ FitCalled
    /\ PriorIdx < 0
    /\ iw > 0
    /\ idx_gulp_peak = iw + 1
    /\ warnings = {}

\* C5: for any run with num_modes >= 1 and any priors the loop visits the
\* modes 0..num_modes-1 in increasing order, never aborts, and ends with one
\* result stored under each mode index.
C5_RunCompletes ==
    /\ pc # "aborted"
    /\ stored = [i \in 1..Len(stored) |-> i - 1]
    /\ (pc = "done") => (Len(stored) = num_modes)

\* C6: when the fit of a mode m fails, the modes after m are still fitted
\* and stored by the end of the run.
C6_FailureIsolated ==
    (pc \in {"done", "aborted"} /\ exc_line # 0) =>
        \A k \in (m + 1)..(num_modes - 1) :
            \E i \in 1..Len(stored) : stored[i] = k

\* C7: the window of a mode is decided by the prior estimate, the frequency
\* step, sw and the spectrum length alone: the same prior with any other
\* amplitude column selects the same center, whether or not the mismatch
\* warning fires.
C7_WindowFromPriorOnly ==
    WindowSelected =>
        \A Yc \in Columns(num_freqs) :
            /\ SelectWindow(Yc, peak_freq).idx = idx_gulp_peak
            /\ PySlice(freqs, SelectWindow(Yc, peak_freq).idx - iw,
                       SelectWindow(Yc, peak_freq).idx + iw) = freqs_2_fit

C7_Witness ==
    /\ FitCalled
    /\ "WARNING" \in warnings
    /\ idx_max # idx_gulp_peak
    /\ Len(freqs_2_fit) > 0

\* whether a stage is switched on in this call
StageEnabled(method) ==
    CASE method = "differential_evolution" -> flags.de
      [] method = "TNC" -> flags.tnc
      [] method = "SLSQP" -> flags.slsqp

\* C8: the stages run in the order differential evolution, TNC, SLSQP;
\* each enabled stage starts from the result of the enabled stage before it
\* (from the initial guess when none ran before it), a disabled stage leaves
\* the parameters alone, and the value returned is the last enabled stage's
\* result, or the initial guess when all three are disabled.
C8_StageChaining ==
    (fpc = "returned") =>
        /\ [i \in 1..Len(calls) |-> calls[i].method] =
              SelectSeq(<<"differential_evolution", "TNC", "SLSQP">>, StageEnabled)
        /\ \A i \in 1..Len(calls) :
              (calls[i].method # "differential_evolution") =>
                  calls[i].x0 = (IF i = 1 THEN f_guess ELSE calls[i - 1].x)
        /\ f_params = (IF calls = <<>> THEN f_guess ELSE calls[Len(calls)].x)

C8_Witness ==
    /\ fpc = "returned"
    /\ flags.de /\ ~flags.tnc /\ flags.slsqp
    /\ Len(calls) = 2
    /\ calls[1].x # f_guess
    /\ calls[2].x0 = calls[1].x
    /\ calls[2].x # calls[1].x

\* C9: for every mode whose prior peak frequency is below sw, the center of
\* the initial guess handed to the optimizer is sw + 1 and the center bounds
\* are [1, 2*sw + 1].
C9_AcousticGuess ==
    (FitCalled /\ peak_freq < sw) =>
        /\ guess[2] = sw + 1
        /\ bounds[2] = <<1, 2 * sw + 1>>

\* C10: the initial guess passed to fit_function lies inside the bounds
\* passed in the same call, component by component.
C10_GuessFeasible ==
    FitCalled =>
        \A i \in 1..4 : bounds[i][1] <= guess[i] /\ guess[i] <= bounds[i][2]

====
